---- MODULE Spec2Model ----
(***************************************************************************)
(* SPDXPresenter (internal/presenter/packages/spdx_presenter.go): the      *)
(* projection of a package catalog onto an SPDX 2.2 document and its       *)
(* hand-over to the tag-value encoder.                                     *)
(*                                                                         *)
(* One Present call is modelled as the steps the Go code takes in order:   *)
(* the CreationInfo literal, packages() (make, one loop iteration per      *)
(* enumerated package, return), and tvsaver.Save2_2.                       *)
(***************************************************************************)
EXTENDS Integers, Sequences, FiniteSets, Bags, TLC

\* ------------------------------------------------------------------ bounds
MaxPkgs == 2
MaxLicenses == 2
MaxFiles == 2
MaxCalls == 2

\* ------------------------------------------------------- input universes
Types == {"deb", "rpm"}
Names == {"curl"}
Versions == {"7.68", "7.69"}
LicenseStrings == {"mit", "totally-bogus-license"}
Paths == {"/usr/bin/curl", "/etc/curl.conf"}
UserInputs == {"alpine:latest", "centos:8"}
BuildVersions == {"0.12.0", "[not provided]"}
SinkErrors == {"short write", "closed pipe"}
DefaultUserInput == "alpine:latest"
DefaultBuildVersion == "0.12.0"

RECURSIVE SeqsUpTo(_, _)
SeqsUpTo(S, n) ==
    IF n = 0 THEN {<< >>}
    ELSE LET shorter == SeqsUpTo(S, n - 1)
         IN  shorter \cup {Append(s, x) : s \in shorter, x \in S}

RECURSIVE SetsUpTo(_, _)
SetsUpTo(S, n) ==
    IF n = 0 THEN {{}}
    ELSE LET smaller == SetsUpTo(S, n - 1)
         IN  smaller \cup {s \cup {x} : s \in smaller, x \in S}

Range(s) == {s[i] : i \in DOMAIN s}

\* pkg.Package as the presenter reads it: Type, Name, Version, Licenses and
\* the Metadata payload, which either is a pkg.FileOwner (with OwnedFiles())
\* or is not.
Package(t, n, v, ls, owner, fs) ==
    [Type |-> t, Name |-> n, Version |-> v, Licenses |-> ls,
     IsFileOwner |-> owner, OwnedFiles |-> fs]

\* The packages a catalog is drawn from, under every (type, name): every
\* version; every license list up to MaxLicenses; every owned-file list up
\* to MaxFiles; and packages that carry one license string and own files.
PackageUniverse ==
    {Package(t, n, v, << >>, FALSE, << >>) :
        t \in Types, n \in Names, v \in Versions}
    \cup {Package(t, n, "7.68", ls, FALSE, << >>) :
        t \in Types, n \in Names, ls \in SeqsUpTo(LicenseStrings, MaxLicenses)}
    \cup {Package(t, n, "7.68", << >>, TRUE, fs) :
        t \in Types, n \in Names, fs \in SeqsUpTo(Paths, MaxFiles)}
    \cup {Package(t, n, "7.69", << l >>, TRUE, fs) :
        t \in Types, n \in Names, l \in LicenseStrings,
        fs \in {<< >>, << "/usr/bin/curl" >>}}

Catalogs == SetsUpTo(PackageUniverse, MaxPkgs)

\* ------------------------------------------------------------------ state
VARIABLES
    catalog,      \* pres.catalog: the packages Enumerate() will yield
    userInput,    \* pres.srcMetadata.ImageMetadata.UserInput
    appName,      \* internal.ApplicationName
    buildVersion, \* version.FromBuild().Version
    now,          \* the wall clock read by time.Now()
    pc,           \* position inside Present
    call,         \* which Present call this is
    creationInfo, \* doc.CreationInfo: << >> until built, then << info >>
    remaining,    \* packages the Enumerate() channel has yet to yield
    results,      \* the map packages() is filling
    origin,       \* for each key of results, the package whose iteration wrote it
    visited,      \* how many loop iterations ran in this call
    enumerations, \* how many times Enumerate() was called in this call
    warnings,     \* bag of packages log.Warnf was called for in this call
    doc,          \* the spdx.Document2_2: << >> until complete, then << d >>
    encoded,      \* the documents tvsaver.Save2_2 was invoked with in this call
    output,       \* the writes the io.Writer received in this call
    saveErr,      \* the error tvsaver.Save2_2 returned
    returned,     \* Present's return value
    firstDoc      \* the document of the previous Present call, if any

vars == <<catalog, userInput, appName, buildVersion, now, pc, call,
          creationInfo, remaining, results, origin, visited, enumerations,
          warnings, doc, encoded, output, saveErr, returned, firstDoc>>

inputs == <<catalog, userInput, appName, buildVersion>>

Nil == "nil"
EmptyMap == << >>

\* ------------------------------------------------- external collaborators
\* spdxLicense.License: the canonical identifier of a raw license string, or
\* an error for a string the license list does not know.
SPDXLicenseList == [mit |-> "MIT"]

License(s) ==
    IF s \in DOMAIN SPDXLicenseList
    THEN [ID |-> SPDXLicenseList[s], err |-> Nil]
    ELSE [ID |-> "", err |-> "unknown license"]

\* time.Now().Format(time.RFC3339)
RFC3339(t) == "2021-03-0" \o ToString(t + 1) \o "T00:00:00Z"

\* ------------------------------------------------------- Document Assembler
\* A creator list that forgets the build version.
CreatorTools_NoVersion == << appName >>

\* CreatorTools: []string{internal.ApplicationName + "-" + version.FromBuild().Version}
CreatorTools == << appName \o "-" \o buildVersion >>

CreatorOrganizations == << "Anchore, Inc" >>

CreatorPersons == << >>

DocumentNamespace == "https://anchore.com/syft/image/" \o userInput

CreationInfo ==
    [SPDXVersion |-> "SPDX-2.2",
     DataLicense |-> "CC0-1.0",
     SPDXIdentifier |-> "DOCUMENT",
     DocumentName |-> userInput,
     DocumentNamespace |-> DocumentNamespace,
     LicenseListVersion |-> "",
     CreatorPersons |-> CreatorPersons,
     CreatorOrganizations |-> CreatorOrganizations,
     CreatorTools |-> CreatorTools,
     Created |-> RFC3339(now),
     CreatorComment |-> "",
     DocumentComment |-> ""]

\* -------------------------------------------------------- Catalog Projector
\* id := fmt.Sprintf("Package-%+v-%s", p.Type, p.Name)
PackageID(p) == "Package-" \o p.Type \o "-" \o p.Name

\* A projector that looks every license string up and warns for any failure.
LicenseWarns_AnyString(p) ==
    \E i \in DOMAIN p.Licenses : License(p.Licenses[i]).err # Nil

\* The err != nil branch of the license lookup: the iteration logs a warning.
LicenseWarns(p) ==
    /\ Len(p.Licenses) > 0
    /\ License(p.Licenses[1]).err # Nil

\* A projector that resolves the last license string instead of the first.
DeclaredLicense_LastString(p) ==
    IF Len(p.Licenses) > 0
    THEN LET licenseInfo == License(p.Licenses[Len(p.Licenses)])
         IN  IF licenseInfo.err # Nil THEN "NOASSERTION" ELSE licenseInfo.ID
    ELSE "NONE"

\* license := "NONE"; only p.Licenses[0] is looked up.
DeclaredLicense(p) ==
    IF Len(p.Licenses) > 0
    THEN LET licenseInfo == License(p.Licenses[1])
         IN  IF licenseInfo.err # Nil THEN "NOASSERTION" ELSE licenseInfo.ID
    ELSE "NONE"

\* The spdx.File2_2 literal built for owned path f.
FileRecord(f) ==
    [FileName |-> f,
     FileSPDXIdentifier |-> f,
     FileChecksumSHA1 |-> "",
     FileChecksumSHA256 |-> "",
     FileChecksumMD5 |-> "",
     LicenseConcluded |-> "NOASSERTION",
     LicenseInfoInFile |-> << "NOASSERTION" >>,
     LicenseComments |-> "",
     FileCopyrightText |-> "NOASSERTION",
     FileComment |-> "",
     FileNotice |-> ""]

\* A file projection whose loop skips the first owned path.
OwnedFileRecords_SkipFirst(p) ==
    IF p.IsFileOwner
    THEN [id \in {p.OwnedFiles[i] : i \in DOMAIN p.OwnedFiles \ {1}} |->
             FileRecord(id)]
    ELSE EmptyMap

\* The files map of packageFiles: files[spdx.ElementID(f)] = &File2_2{...}
\* for every f of owner.OwnedFiles(); empty when Metadata is no FileOwner.
OwnedFileRecords(p) ==
    IF p.IsFileOwner
    THEN [id \in Range(p.OwnedFiles) |-> FileRecord(id)]
    ELSE EmptyMap

\* A file projection that reports analysis only when a file is owned.
FilesAnalyzed_WhenNonEmpty(p) == p.IsFileOwner /\ Len(p.OwnedFiles) > 0

\* The filesAnalyzed result of packageFiles: the type assertion's ok.
FilesAnalyzed(p) == p.IsFileOwner

packageFiles(p) ==
    [filesAnalyzed |-> FilesAnalyzed(p), files |-> OwnedFileRecords(p)]

\* The spdx.Package2_2 literal of one loop iteration.
PackageRecord(p) ==
    LET pf == packageFiles(p)
    IN  [IsUnpackaged |-> FALSE,
         PackageName |-> p.Name,
         PackageSPDXIdentifier |-> PackageID(p),
         PackageVersion |-> p.Version,
         PackageFileName |-> "",
         PackageDownloadLocation |-> "NOASSERTION",
         FilesAnalyzed |-> pf.filesAnalyzed,
         IsFilesAnalyzedTagPresent |-> TRUE,
         PackageVerificationCode |-> "",
         PackageChecksumSHA1 |-> "",
         PackageChecksumSHA256 |-> "",
         PackageChecksumMD5 |-> "",
         PackageLicenseConcluded |-> "NOASSERTION",
         PackageLicenseDeclared |-> DeclaredLicense(p),
         PackageCopyrightText |-> "NOASSERTION",
         Files |-> pf.files]

\* m[k] = v on a Go map
MapSet(m, k, v) == [x \in DOMAIN m \cup {k} |-> IF x = k THEN v ELSE m[x]]

\* A loop that stops one package short of draining the channel.
LoopDone_OneShort == Cardinality(remaining) <= 1

\* The range loop over Enumerate() ends when the channel is drained.
LoopDone == remaining = {}

\* The spdx.Document2_2 literal of Present.
Document(info, pkgs) == [CreationInfo |-> info, Packages |-> pkgs]

\* What reaches the io.Writer: the encoding of d, whole or cut short.
Written(d, whole) == [doc |-> d, complete |-> whole]

\* A Present that swallows the encoder's error.
PresentResult_Swallowed(err) == Nil

\* The value Present returns for an outcome of tvsaver.Save2_2.
PresentResult(err) == err

\* ------------------------------------------------------------------- Init
\* The presenter after NewSPDXPresenter: any catalog, and any source and
\* build metadata for catalogs of at most one package (the envelope never
\* reads the catalog), the default metadata for larger ones.
Init ==
    /\ catalog \in Catalogs
    /\ \/ /\ userInput = DefaultUserInput
          /\ buildVersion = DefaultBuildVersion
       \/ /\ Cardinality(catalog) <= 1
          /\ userInput \in UserInputs
          /\ buildVersion \in BuildVersions
    /\ appName = "syft"
    /\ now = 0
    /\ pc = "start"
    /\ call = 1
    /\ creationInfo = << >>
    /\ remaining = {}
    /\ results = EmptyMap
    /\ origin = EmptyMap
    /\ visited = 0
    /\ enumerations = 0
    /\ warnings = EmptyBag
    /\ doc = << >>
    /\ encoded = << >>
    /\ output = << >>
    /\ saveErr = Nil
    /\ returned = Nil
    /\ firstDoc = << >>

\* ---------------------------------------------------------------- actions
\* Present, lines 37-102: the CreationInfo literal.
Assemble ==
    /\ pc = "start"
    /\ creationInfo' = << CreationInfo >>
    /\ pc' = "packages"
    /\ UNCHANGED <<inputs, now, call, remaining, results, origin, visited,
                   enumerations, warnings, doc, encoded, output, saveErr, returned,
                   firstDoc>>

\* packages(), lines 116-118: make the map, open the enumeration.
PackagesBegin ==
    /\ pc = "packages"
    /\ results' = EmptyMap
    /\ origin' = EmptyMap
    /\ remaining' = catalog
    /\ enumerations' = enumerations + 1
    /\ pc' = "range"
    /\ UNCHANGED <<inputs, now, call, creationInfo, visited, warnings, doc,
                   encoded, output, saveErr, returned, firstDoc>>

\* packages(), lines 118-297: one iteration, for the package the channel
\* yields next (any of those not yet yielded).
ProjectPackage ==
    /\ pc = "range"
    /\ ~LoopDone
    /\ \E p \in remaining :
        /\ warnings' = IF LicenseWarns(p)
                       THEN warnings (+) SetToBag({p})
                       ELSE warnings
        /\ results' = MapSet(results, PackageID(p), PackageRecord(p))
        /\ origin' = MapSet(origin, PackageID(p), p)
        /\ remaining' = remaining \ {p}
    /\ visited' = visited + 1
    /\ UNCHANGED <<inputs, now, pc, call, creationInfo, enumerations, doc,
                   encoded, output, saveErr, returned, firstDoc>>

\* packages() returns (line 298) and the Document2_2 literal is complete
\* (lines 37, 103, 109).
PackagesReturn ==
    /\ pc = "range"
    /\ LoopDone
    /\ doc' = << Document(creationInfo[1], results) >>
    /\ pc' = "save"
    /\ UNCHANGED <<inputs, now, call, creationInfo, remaining, results,
                   origin, visited, enumerations, warnings, encoded, output, saveErr,
                   returned, firstDoc>>

\* Present, line 111: return tvsaver.Save2_2(&doc, output). The encoder
\* either writes the document or fails with an error of the sink: a short
\* write leaves a part of the text in the sink, a closed pipe nothing.
Save ==
    /\ pc = "save"
    /\ encoded' = Append(encoded, doc[1])
    /\ \E err \in {Nil} \cup SinkErrors :
        /\ saveErr' = err
        /\ returned' = PresentResult(err)
        /\ output' = CASE err = Nil -> Append(output, Written(doc[1], TRUE))
                        [] err = "short write" ->
                               Append(output, Written(doc[1], FALSE))
                        [] OTHER -> output
    /\ pc' = "done"
    /\ UNCHANGED <<inputs, now, call, creationInfo, remaining, results,
                   origin, visited, enumerations, warnings, doc, firstDoc>>

\* A second Present call on the same presenter: the catalog and the source
\* metadata are unchanged, the clock may have advanced.
PresentAgain ==
    /\ pc = "done"
    /\ call < MaxCalls
    /\ call' = call + 1
    /\ firstDoc' = doc
    /\ now' \in {now, now + 1}
    /\ pc' = "start"
    /\ creationInfo' = << >>
    /\ remaining' = {}
    /\ results' = EmptyMap
    /\ origin' = EmptyMap
    /\ visited' = 0
    /\ enumerations' = 0
    /\ warnings' = EmptyBag
    /\ doc' = << >>
    /\ encoded' = << >>
    /\ output' = << >>
    /\ saveErr' = Nil
    /\ returned' = Nil
    /\ UNCHANGED inputs

Next ==
    \/ Assemble
    \/ PackagesBegin
    \/ ProjectPackage
    \/ PackagesReturn
    \/ Save

NextTwice ==
    \/ Next
    \/ PresentAgain

\* One Present call.
Spec == Init /\ [][Next]_vars

\* One Present call that is scheduled until it returns (Present is a
\* synchronous function: each of its steps is taken once it is enabled).
FairSpec == Spec /\ WF_vars(Next)

\* Present called up to MaxCalls times on the same presenter.
SpecTwice == Init /\ [][NextTwice]_vars

\* ------------------------------------------------------------- properties
\* The first license string of p is looked up and the lookup fails.
FirstLookupFails(p) ==
    /\ Len(p.Licenses) > 0
    /\ License(p.Licenses[1]).err # Nil

\* How many license strings of p the license list does not know.
UnresolvableStrings(p) ==
    Cardinality({i \in DOMAIN p.Licenses : License(p.Licenses[i]).err # Nil})

\* The unresolvable license strings carried by the packages of S, counted.
RECURSIVE TotalUnresolvable(_)
TotalUnresolvable(S) ==
    IF S = {} THEN 0
    ELSE LET x == CHOOSE y \in S : TRUE
         IN  UnresolvableStrings(x) + TotalUnresolvable(S \ {x})

\* The Package Records built so far and, once complete, the document's.
Records == results

\* Two documents that differ at most in the creation timestamp.
SameButCreated(a, b) ==
    /\ a.Packages = b.Packages
    /\ [a.CreationInfo EXCEPT !.Created = ""] =
       [b.CreationInfo EXCEPT !.Created = ""]

\* C1: the declared license of every Package Record is NONE when the package
\* it was built from has no license string, the canonical identifier of the
\* FIRST license string when its lookup succeeds, and NOASSERTION when that
\* lookup fails; the later strings play no part.
C1_DeclaredLicense ==
    /\ \A id \in DOMAIN Records :
        LET p == origin[id]
            declared == Records[id].PackageLicenseDeclared
        IN  /\ Len(p.Licenses) = 0 => declared = "NONE"
            /\ (Len(p.Licenses) > 0 /\ ~FirstLookupFails(p)) =>
                   declared = License(p.Licenses[1]).ID
            /\ FirstLookupFails(p) => declared = "NOASSERTION"
    /\ doc # << >> => doc[1].Packages = Records

\* C1 witness: a finished call whose document holds the record of a package
\* with a resolvable first license string followed by an unresolvable one.
C1_Witness ==
    /\ pc = "done"
    /\ \E id \in DOMAIN doc[1].Packages :
        /\ Len(origin[id].Licenses) >= 2
        /\ ~FirstLookupFails(origin[id])
        /\ License(origin[id].Licenses[2]).err # Nil
        /\ doc[1].Packages[id].PackageLicenseDeclared = "MIT"

\* C2: a Package Record has FilesAnalyzed exactly when the package it was
\* built from exposes file ownership (also with no owned file), and a record
\* with FilesAnalyzed false carries no File Record.
C2_FilesAnalyzed ==
    \A id \in DOMAIN Records :
        /\ Records[id].FilesAnalyzed <=> origin[id].IsFileOwner
        /\ ~Records[id].FilesAnalyzed => Records[id].Files = EmptyMap

\* C2 witness: a finished call with the record of a file owner that owns
\* nothing: FilesAnalyzed is true and the file-record set is empty.
C2_Witness ==
    /\ pc = "done"
    /\ \E id \in DOMAIN Records :
        /\ origin[id].IsFileOwner
        /\ origin[id].OwnedFiles = << >>
        /\ Records[id].FilesAnalyzed
        /\ Records[id].Files = EmptyMap

\* C3: the document holds as many Package Records as packages were
\* enumerated, and every catalog package has a record with its name and
\* version.
C3_OneRecordPerPackage ==
    doc # << >> =>
        /\ Cardinality(DOMAIN doc[1].Packages) = visited
        /\ \A p \in catalog :
            \E id \in DOMAIN doc[1].Packages :
                /\ doc[1].Packages[id].PackageName = p.Name
                /\ doc[1].Packages[id].PackageVersion = p.Version

\* C4: the file-record set of a file owner's Package Record has exactly the
\* owned paths as identifiers, and each File Record's identifier and file
\* name are that path.
C4_FileRecords ==
    \A id \in DOMAIN Records :
        origin[id].IsFileOwner =>
            LET files == Records[id].Files
            IN  /\ DOMAIN files = Range(origin[id].OwnedFiles)
                /\ \A f \in DOMAIN files :
                    /\ files[f].FileSPDXIdentifier = f
                    /\ files[f].FileName = f

\* C4 witness: a finished call with a record that carries two File Records.
C4_Witness ==
    /\ pc = "done"
    /\ \E id \in DOMAIN Records :
        /\ Len(origin[id].OwnedFiles) = 2
        /\ Cardinality(DOMAIN Records[id].Files) = 2

\* C5: when two catalog packages own the same path, the document holds two
\* File Records with that identifier, under two Package Records.
C5_NoDedupAcrossPackages ==
    doc # << >> =>
        \A p, q \in catalog :
            (p # q /\ p.IsFileOwner /\ q.IsFileOwner) =>
                \A f \in Range(p.OwnedFiles) \cap Range(q.OwnedFiles) :
                    Cardinality({id \in DOMAIN doc[1].Packages :
                        f \in DOMAIN doc[1].Packages[id].Files}) >= 2

\* C6: the documents of two Present calls on the same catalog and source
\* metadata differ at most in the creation timestamp, whatever order the
\* enumerator yields the packages in.
C6_Idempotent ==
    (firstDoc # << >> /\ doc # << >>) => SameButCreated(firstDoc[1], doc[1])

\* C7: Present returns the encoder's error, and an error only then; a failed
\* license lookup leaves the return value alone, its package gets a record
\* with declared license NOASSERTION, and every catalog package is projected
\* before the document is complete.
C7_ErrorPolicy ==
    /\ pc = "done" => returned = saveErr
    /\ pc # "done" => returned = Nil
    /\ \A id \in DOMAIN Records :
        FirstLookupFails(origin[id]) =>
            Records[id].PackageLicenseDeclared = "NOASSERTION"
    /\ doc # << >> =>
        /\ visited = Cardinality(catalog)
        /\ \A p \in catalog : PackageID(p) \in DOMAIN doc[1].Packages

\* C7 witness: a call that returned no error although a license lookup
\* failed, with the records of both catalog packages in the document.
C7_Witness ==
    /\ pc = "done"
    /\ returned = Nil
    /\ Cardinality(DOMAIN doc[1].Packages) = 2
    /\ \E id \in DOMAIN doc[1].Packages :
        /\ FirstLookupFails(origin[id])
        /\ doc[1].Packages[id].PackageLicenseDeclared = "NOASSERTION"

\* C8: the envelope's creators are exactly one tool creator, the application
\* name joined with the build version, exactly one organization creator, the
\* fixed literal, and no person.
C8_Creators ==
    \A info \in Range(creationInfo)
                \cup {doc[i].CreationInfo : i \in DOMAIN doc}
                \cup {encoded[i].CreationInfo : i \in DOMAIN encoded} :
        /\ Len(info.CreatorTools) = 1
        /\ info.CreatorTools[1] = appName \o "-" \o buildVersion
        /\ info.CreatorOrganizations = << "Anchore, Inc" >>
        /\ info.CreatorPersons = << >>

\* C8 witness: a document was handed to the encoder for a build without a
\* version and a source other than the default.
C8_Witness ==
    /\ Len(encoded) = 1
    /\ buildVersion = "[not provided]"
    /\ userInput = "centos:8"
    /\ encoded[1].CreationInfo.CreatorTools = << "syft-[not provided]" >>

\* C9 as stated: the warnings of a call number the unresolvable license
\* strings of the catalog's packages, and a package whose strings all
\* resolve (or that has none) gets no warning.
C9_WarningPerUnresolvableString ==
    pc = "done" =>
        /\ BagCardinality(warnings) = TotalUnresolvable(catalog)
        /\ \A p \in catalog :
            UnresolvableStrings(p) = 0 => ~BagIn(p, warnings)

\* C9 amended: the warnings of a call are one per package whose FIRST license
\* string is unresolvable, and none for a package whose first string
\* resolves or that has no license string.
C9_WarningPerFailedLookup ==
    /\ BagToSet(warnings) \subseteq catalog \ remaining
    /\ doc # << >> =>
        /\ \A p \in catalog :
            CopiesIn(p, warnings) = IF FirstLookupFails(p) THEN 1 ELSE 0
        /\ BagCardinality(warnings) =
               Cardinality({p \in catalog : FirstLookupFails(p)})

\* C9 witness: a finished call over a package with two unresolvable license
\* strings, which got one warning.
C9_Witness ==
    /\ pc = "done"
    /\ \E p \in catalog :
        /\ UnresolvableStrings(p) = 2
        /\ CopiesIn(p, warnings) = 1
        /\ BagCardinality(warnings) = 1

\* The order of events inside one Present call.
C10_Order ==
    /\ enumerations <= 1
    /\ creationInfo = << >> => enumerations = 0
    /\ Len(encoded) <= 1
    /\ pc # "done" => (encoded = << >> /\ output = << >>)
    /\ pc = "done" =>
        /\ Len(encoded) = 1
        /\ enumerations = 1
        /\ remaining = {}
        /\ visited = Cardinality(catalog)
        /\ encoded[1] = Document(creationInfo[1], results)
        /\ \A p \in catalog : PackageID(p) \in DOMAIN encoded[1].Packages
        /\ Len(output) <= 1
        /\ \A i \in DOMAIN output : output[i].doc = encoded[1]

\* C10: in one Present call the catalog is enumerated once and every package
\* is projected before the encoder is invoked; the encoder is invoked once,
\* last, with the envelope and all Package Records; nothing reaches the sink
\* before; and the call ends after that one write attempt.
C10_OrderAndTermination == []C10_Order /\ <>(pc = "done")

\* C10 witness: a finished call over two packages whose document reached the
\* sink whole.
C10_Witness ==
    /\ pc = "done"
    /\ visited = 2
    /\ Len(output) = 1
    /\ output[1].complete
====
